---- MODULE Spec2Model ----
(***************************************************************************)
(* NeoFi event management API: the event store, its version ledger and its *)
(* permission registry (main.py, models.py, schemas.py).                   *)
(*                                                                         *)
(* The persistent store is the three relations events, event_versions and  *)
(* event_permissions.  Every request handler runs in its own database      *)
(* session; a handler is modelled as the sequence of its database steps,   *)
(* one action per step, cut at the places where another request's commit   *)
(* can become visible: in front of each query that reads rows another      *)
(* request may write, and at each db.commit().  What a handler has written *)
(* but not yet committed lives in its request record and is dropped when   *)
(* the request ends without a commit.                                      *)
(***************************************************************************)
EXTENDS Naturals, Sequences, FiniteSets, TLC

\* ------------------------------------------------------------------ bounds

\* Largest event id the store hands out.
MaxEvents == 2
\* Largest number of rows held by event_versions.
MaxVersions == 3
\* Largest number of rows held by event_permissions.
MaxGrants == 2
\* Handlers are served overlapped while the store has handed out at most
\* this many event ids, and one at a time from then on.
RaceEvents == 1

\* Request handlers that may be in flight at the same time.
Slots == {"r1", "r2"}

\* ------------------------------------------------------------- data model

\* Rows of the users table (ids); registration is not modelled, no endpoint
\* removes a user.
Users == {1, 2}
\* User ids a request body may name: the users and one id with no row.
UserIds == {1, 2, 3}

\* models.Role
Role == {"owner", "editor", "viewer"}

\* models.RecurrencePattern: the tags the payloads below use.
RecurrencePattern == {"daily", "weekly"}

\* Python's None in a string-valued column.
None == "None"
\* Python's None in a DateTime column (times are hours, 1 and up).
NoTime == 0
\* SQL NULL in the integer column event_versions.event_id (ids are 1 and up).
Null == 0

\* The tracked fields, in the order get_event_diff walks them.
FieldNames ==
    << "title", "description", "start_time", "end_time", "location",
       "is_recurring", "recurrence_pattern", "recurrence_end_date" >>

TrackedFields == {FieldNames[i] : i \in 1..Len(FieldNames)}

\* schemas.EventBase: a body that leaves the optional fields out gets their
\* defaults.
EventBase(title, description, start_time, end_time) ==
    [ title |-> title, description |-> description,
      start_time |-> start_time, end_time |-> end_time,
      location |-> None, is_recurring |-> FALSE,
      recurrence_pattern |-> None, recurrence_end_date |-> NoTime ]

\* Request bodies of POST /api/events (schemas.EventCreate).
EventCreate == { EventBase("Standup", "sync", 9, 10) }

\* Request bodies of POST /api/events/batch (schemas.BatchEventCreate).
BatchEventCreate ==
    { << EventBase("Standup", "sync", 9, 10), EventBase("Standup", "sync", 9, 10) >> }

\* Request bodies of PUT /api/events/{id} (schemas.EventUpdate): only the
\* fields the body sets, which is what dict(exclude_unset=True) keeps.
EventUpdate ==
    { [title |-> "Daily Standup"],
      [location |-> "Hall", is_recurring |-> TRUE] }

\* schemas.PermissionCreate
PermissionCreate(user_id, role) == [user_id |-> user_id, role |-> role]

\* Request bodies of POST /api/events/{id}/share.
ShareBodies ==
    { << PermissionCreate(2, "viewer") >>,
      << PermissionCreate(2, "editor"), PermissionCreate(2, "owner") >>,
      << PermissionCreate(2, "editor"), PermissionCreate(3, "viewer") >> }

\* ------------------------------------------------------------------ state

VARIABLES
    events,             \* events table: id -> [owner_id, fields]
    event_versions,     \* event_versions table: rows in insertion order (row id = index)
    event_permissions,  \* event_permissions table: rows in insertion order (no key)
    next_event_id,      \* events.id sequence
    req,                \* per slot: the handler in flight and its session
    resp,               \* the response on its way to the client, NoResp when none is
    ops                 \* history: per event, create+update+rollback calls completed

vars == << events, event_versions, event_permissions, next_event_id, req, resp, ops >>

db == << events, event_versions, event_permissions, next_event_id >>

\* A slot with no handler in flight.
Idle == [pc |-> "idle"]
\* No response on its way.
NoResp == [status |-> 0]

EventIds == 1..MaxEvents

\* The last response has gone out to its client.
Sent == resp = NoResp

\* A handler may start in slot s: the slot is free, and the other slots are
\* too unless handlers are still served overlapped.
MayStart(s) ==
    /\ req[s].pc = "idle"
    /\ Sent
    /\ \/ next_event_id <= RaceEvents + 1
       \/ \A t \in Slots \ {s} : req[t].pc = "idle"

Init ==
    /\ events = << >>
    /\ event_versions = << >>
    /\ event_permissions = << >>
    /\ next_event_id = 1
    /\ req = [s \in Slots |-> Idle]
    /\ resp = NoResp
    /\ ops = [e \in EventIds |-> 0]

\* -------------------------------------------------------------- the store

\* db.query(models.Event).filter(models.Event.id == event_id).first(): is
\* there a row.
EventExists(e) == e \in DOMAIN events

\* Row ids of the snapshots of event e.
VersionRows(e) ==
    {i \in 1..Len(event_versions) : event_versions[i].event_id = e}

\* Row ids of the snapshots of event e numbered n.
VersionRowsNumbered(e, n) ==
    {i \in VersionRows(e) : event_versions[i].version_number = n}

\* The version_number of
\* query(EventVersion).filter(event_id == e).order_by(version_number.desc()).first(),
\* 0 when the query returns None.
CurrentVersionNumber(e) ==
    IF VersionRows(e) = {} THEN 0
    ELSE CHOOSE n \in {event_versions[i].version_number : i \in VersionRows(e)} :
            \A i \in VersionRows(e) : event_versions[i].version_number <= n

\* A snapshot row that names the first user as modifier, whoever writes it.
EventVersion_ModifiedByFirstUser(e, fields, user, n) ==
    [ event_id |-> e, fields |-> fields, modified_by_id |-> 1,
      version_number |-> n ]

\* models.EventVersion(...): a snapshot row.
EventVersion(e, fields, user, n) ==
    [ event_id |-> e, fields |-> fields, modified_by_id |-> user,
      version_number |-> n ]

\* NextVersionNumber without its increment.
NextVersionNumber_NoIncrement(current_version) ==
    IF current_version # 0 THEN current_version ELSE 1

\* main.py 199: current_version.version_number + 1 if current_version else 1
\* (current_version is 0 for None).
NextVersionNumber(current_version) ==
    IF current_version # 0 THEN current_version + 1 ELSE 1

\* Record that overwrites the event's latest snapshot instead of adding one.
Record_Overwrite(versions, version) ==
    LET own == {i \in 1..Len(versions) : versions[i].event_id = version.event_id}
    IN  IF own = {} THEN Append(versions, version)
        ELSE LET last == CHOOSE i \in own : \A j \in own : j <= i
             IN  [versions EXCEPT ![last] = version]

\* An insert under a unique key on (event_id, version_number): a row whose
\* pair is taken is not stored.
Record_Unique(versions, version) ==
    IF \E i \in 1..Len(versions) :
          /\ versions[i].event_id = version.event_id
          /\ versions[i].version_number = version.version_number
    THEN versions
    ELSE Append(versions, version)

\* db.add(version) and the commit: the ledger with the new row.
Record(versions, version) == Append(versions, version)

\* Restore that leaves the event's location as it is.
Restore_SkipLocation(fields, version) ==
    [f \in TrackedFields |->
        IF f = "location" THEN fields[f] ELSE version.fields[f]]

\* main.py 376-383: the loaded event's eight fields overwritten with the
\* snapshot's.
Restore(fields, version) ==
    [f \in TrackedFields |-> version.fields[f]]

\* What a handler returns on success / what an HTTPException carries.
Ok(body) == [status |-> 200, body |-> body]
HTTPException(status_code, detail) == [status |-> status_code, detail |-> detail]

\* What the client sees of an exception no handler catches.
ServerError == HTTPException(500, "Internal Server Error")

\* The response of a handler that returns the event it wrote: the row as
\* db.refresh / the response model reads it back after the commit; reading
\* a row that is gone raises, which the client sees as a server error.
Refreshed(table, e) ==
    IF e \in DOMAIN table
    THEN Ok([id |-> e, owner_id |-> table[e].owner_id, fields |-> table[e].fields])
    ELSE ServerError

\* Refusal that lets a user through who holds a grant on the event.
Refusal_GranteeAllowed(user, e) ==
    IF e \notin DOMAIN events THEN 404
    ELSE IF /\ events[e].owner_id # user
            /\ ~\E k \in 1..Len(event_permissions) :
                    /\ event_permissions[k].event_id = e
                    /\ event_permissions[k].user_id = user
         THEN 403
    ELSE 0

\* Refusal that lets a user through who holds a grant of role editor or
\* owner on the event.
Refusal_EditorAllowed(user, e) ==
    IF e \notin DOMAIN events THEN 404
    ELSE IF /\ events[e].owner_id # user
            /\ ~ \E k \in 1..Len(event_permissions) :
                    /\ event_permissions[k].event_id = e
                    /\ event_permissions[k].user_id = user
                    /\ event_permissions[k].role \in {"editor", "owner"}
         THEN 403
    ELSE 0

\* The 404 / 403 every event-scoped handler answers before anything else
\* (main.py 137-144, and the same two checks in each of the others); 0 when the caller
\* is the owner of an existing event.
Refusal(user, e) ==
    IF ~EventExists(e) THEN 404
    ELSE IF events[e].owner_id # user THEN 403
    ELSE 0

\* The exception those two checks raise, with the handler's own wording of
\* the 403.
Refused(user, e, forbidden) ==
    HTTPException(Refusal(user, e),
        IF Refusal(user, e) = 404 THEN "Event not found" ELSE forbidden)

\* Snapshot rows the handler in slot s may still insert.
PendingVersions(s) ==
    IF req[s].pc \in {"create_version", "update_read", "update_commit",
                      "rollback_read", "rollback_commit"}
    THEN 1
    ELSE IF req[s].pc \in {"batch_insert", "batch_version"}
    THEN Len(req[s].body) - req[s].i + 1
    ELSE 0

\* Event rows the handler in slot s may still insert.
PendingEvents(s) ==
    IF req[s].pc = "batch_insert" THEN Len(req[s].body) - req[s].i + 1
    ELSE IF req[s].pc = "batch_version" THEN Len(req[s].body) - req[s].i
    ELSE 0

RECURSIVE Sum(_, _)
Sum(f, S) == IF S = {} THEN 0
             ELSE LET x == CHOOSE y \in S : TRUE IN f[x] + Sum(f, S \ {x})

\* The bound on event_versions leaves room for n more snapshots.
RoomForVersions(n) ==
    Len(event_versions) + Sum([s \in Slots |-> PendingVersions(s)], Slots) + n
        <= MaxVersions

RoomForVersion == RoomForVersions(1)

\* The bound on event ids leaves room for n more events.
RoomForEvents(n) ==
    (next_event_id - 1) + Sum([s \in Slots |-> PendingEvents(s)], Slots) + n
        <= MaxEvents

\* ----------------------------------------------------------- create_event

\* An event row owned by the first user, whoever creates it.
Event_OwnedByFirstUser(user, body) == [owner_id |-> 1, fields |-> body]

\* main.py 86-89: models.Event(**event.dict(), owner_id=current_user.id)
Event(user, body) == [owner_id |-> user, fields |-> body]

\* main.py 86-92: insert the event row and commit.
CreateEventInsert(s, user, body) ==
    /\ MayStart(s)
    /\ RoomForEvents(1)
    /\ RoomForVersion
    /\ events' = events @@ (next_event_id :> Event(user, body))
    /\ next_event_id' = next_event_id + 1
    /\ req' = [req EXCEPT ![s] = [pc |-> "create_version", caller |-> user,
                                  eid |-> next_event_id, body |-> body]]
    /\ resp' = NoResp
    /\ UNCHANGED << event_versions, event_permissions, ops >>

\* main.py 94-104: insert the version-1 snapshot, commit, return the event.
\* The foreign key of event_versions.event_id rejects the row of an event
\* that is gone.
CreateEventVersion(s) ==
    /\ req[s].pc = "create_version"
    /\ Sent
    /\ req' = [req EXCEPT ![s] = Idle]
    /\ UNCHANGED << events, event_permissions, next_event_id >>
    /\ IF ~EventExists(req[s].eid)
       THEN /\ resp' = ServerError
            /\ UNCHANGED << event_versions, ops >>
       ELSE /\ event_versions' = Record(event_versions,
                    EventVersion(req[s].eid, req[s].body, req[s].caller, 1))
            /\ ops' = [ops EXCEPT ![req[s].eid] = @ + 1]
            /\ resp' = Refreshed(events, req[s].eid)

\* ---------------------------------------------------- create_batch_events

\* main.py 236-242: insert the event row of item i and commit.
BatchInsert(s, user, body, i, created) ==
    /\ events' = events @@ (next_event_id :> Event(user, body[i]))
    /\ next_event_id' = next_event_id + 1
    /\ req' = [req EXCEPT ![s] = [pc |-> "batch_version", caller |-> user,
                                  eid |-> next_event_id, body |-> body, i |-> i,
                                  created |-> created]]
    /\ resp' = NoResp
    /\ UNCHANGED << event_versions, event_permissions, ops >>

\* main.py 233-242: the first iteration of the loop, up to its first commit.
CreateBatchEventsBegin(s, user, body) ==
    /\ MayStart(s)
    /\ RoomForEvents(Len(body))
    /\ RoomForVersions(Len(body))
    /\ BatchInsert(s, user, body, 1, << >>)

\* main.py 235-242: a later iteration of the loop, up to its first commit.
CreateBatchEventsInsert(s) ==
    /\ req[s].pc = "batch_insert"
    /\ Sent
    /\ BatchInsert(s, req[s].caller, req[s].body, req[s].i, req[s].created)

\* The response of create_batch_events: the created events, read back.
RefreshedAll(table, created) ==
    IF \A k \in 1..Len(created) : created[k] \in DOMAIN table
    THEN Ok([k \in 1..Len(created) |-> Refreshed(table, created[k]).body])
    ELSE ServerError

\* main.py 245-256: insert the version-1 snapshot of item i and commit; go
\* on with the next item, or return the created events after the last.  The
\* foreign key of event_versions.event_id rejects the row of an event that
\* is gone.
CreateBatchEventsVersion(s) ==
    LET r == req[s]
        created == Append(r.created, r.eid)
    IN  /\ r.pc = "batch_version"
        /\ Sent
        /\ UNCHANGED << events, event_permissions, next_event_id >>
        /\ IF ~EventExists(r.eid)
           THEN /\ req' = [req EXCEPT ![s] = Idle]
                /\ resp' = ServerError
                /\ UNCHANGED << event_versions, ops >>
           ELSE /\ event_versions' = Record(event_versions,
                        EventVersion(r.eid, r.body[r.i], r.caller, 1))
                /\ ops' = [ops EXCEPT ![r.eid] = @ + 1]
                /\ IF r.i < Len(r.body)
                   THEN /\ req' = [req EXCEPT ![s].pc = "batch_insert",
                                              ![s].i = @ + 1,
                                              ![s].created = created]
                        /\ resp' = NoResp
                   ELSE /\ req' = [req EXCEPT ![s] = Idle]
                        /\ resp' = RefreshedAll(events, created)

\* ----------------------------------------------------------- update_event

\* An update that takes the whole body, unset fields included, as dict()
\* without exclude_unset gives it: a field the body leaves out is cleared.
ApplyUpdate_Unset(fields, update_data) ==
    [f \in TrackedFields |->
        IF f \in DOMAIN update_data THEN update_data[f]
        ELSE EventBase("", "", NoTime, NoTime)[f]]

\* setattr(db_event, key, value) for every field the body sets.
ApplyUpdate(fields, update_data) ==
    [f \in TrackedFields |->
        IF f \in DOMAIN update_data THEN update_data[f] ELSE fields[f]]

\* A flush that writes nothing to the event's row.
Flush_Nothing(row, loaded, session) == row

\* The UPDATE the session flushes for a loaded row: the columns whose value
\* in the session differs from the value loaded, written over the table's row.
Flush(row, loaded, session) ==
    [f \in TrackedFields |-> IF session[f] # loaded[f] THEN session[f] ELSE row[f]]

\* main.py 169-181: look the event up, refuse a caller who is not its owner,
\* set the body's fields on the loaded event.
UpdateEventBegin(s, user, e, body) ==
    /\ MayStart(s)
    /\ UNCHANGED << db, ops >>
    /\ IF Refusal(user, e) # 0
       THEN /\ resp' = Refused(user, e, "Not authorized to update this event")
            /\ UNCHANGED req
       ELSE /\ RoomForVersion
            /\ resp' = NoResp
            /\ req' = [req EXCEPT ![s] =
                    [pc |-> "update_read", caller |-> user, eid |-> e,
                     body |-> body,
                     loaded |-> events[e].fields,
                     session |-> ApplyUpdate(events[e].fields, body),
                     current_version |-> 0]]

\* main.py 184-186: read the current (highest-numbered) snapshot.
UpdateEventRead(s) ==
    /\ req[s].pc = "update_read"
    /\ Sent
    /\ req' = [req EXCEPT ![s].pc = "update_commit",
                          ![s].current_version = CurrentVersionNumber(req[s].eid)]
    /\ resp' = NoResp
    /\ UNCHANGED << db, ops >>

\* main.py 188-206: flush the changed columns of the event row, insert the
\* snapshot of the session's event numbered current + 1 (1 when the query
\* found no snapshot), commit, return the refreshed event.  The flush of a
\* row that is gone fails and the session ends uncommitted.
UpdateEventCommit(s) ==
    LET r == req[s]
        e == r.eid
    IN  /\ r.pc = "update_commit"
        /\ Sent
        /\ req' = [req EXCEPT ![s] = Idle]
        /\ UNCHANGED << event_permissions, next_event_id >>
        /\ IF ~EventExists(e)
           THEN /\ resp' = ServerError
                /\ UNCHANGED << events, event_versions, ops >>
           ELSE /\ events' = [events EXCEPT ![e].fields = Flush(@, r.loaded, r.session)]
                /\ event_versions' = Record(event_versions,
                        EventVersion(e, r.session, r.caller,
                            NextVersionNumber(r.current_version)))
                /\ ops' = [ops EXCEPT ![e] = @ + 1]
                /\ resp' = Refreshed(events', e)

\* --------------------------------------------------------- rollback_event

\* main.py 357-383: look the event up, refuse a caller who is not its owner,
\* fetch the snapshot numbered version_id (.first(): any one row when several
\* carry the number), copy its eight fields onto the loaded event.
RollbackEventBegin(s, user, e, version_id) ==
    /\ MayStart(s)
    /\ UNCHANGED << db, ops >>
    /\ IF Refusal(user, e) # 0
       THEN /\ resp' = Refused(user, e, "Not authorized to update this event")
            /\ UNCHANGED req
       ELSE IF VersionRowsNumbered(e, version_id) = {}
       THEN /\ resp' = HTTPException(404, "Version not found")
            /\ UNCHANGED req
       ELSE /\ RoomForVersion
            /\ resp' = NoResp
            /\ \E i \in VersionRowsNumbered(e, version_id) :
                 req' = [req EXCEPT ![s] =
                    [pc |-> "rollback_read", caller |-> user, eid |-> e,
                     version_id |-> version_id,
                     loaded |-> events[e].fields,
                     session |-> Restore(events[e].fields, event_versions[i]),
                     current_version |-> 0]]

\* main.py 386-388: read the current (highest-numbered) snapshot.
RollbackEventRead(s) ==
    /\ req[s].pc = "rollback_read"
    /\ Sent
    /\ req' = [req EXCEPT ![s].pc = "rollback_commit",
                          ![s].current_version = CurrentVersionNumber(req[s].eid)]
    /\ resp' = NoResp
    /\ UNCHANGED << db, ops >>

\* main.py 390-408: flush the changed columns of the event row, insert the
\* snapshot of the session's event numbered current + 1, commit, return the
\* refreshed event.  current_version.version_number raises when the query
\* found no snapshot; the flush of a row that is gone fails.
RollbackEventCommit(s) ==
    LET r == req[s]
        e == r.eid
    IN  /\ r.pc = "rollback_commit"
        /\ Sent
        /\ req' = [req EXCEPT ![s] = Idle]
        /\ UNCHANGED << event_permissions, next_event_id >>
        /\ IF ~EventExists(e) \/ r.current_version = 0
           THEN /\ resp' = ServerError
                /\ UNCHANGED << events, event_versions, ops >>
           ELSE /\ events' = [events EXCEPT ![e].fields = Flush(@, r.loaded, r.session)]
                /\ event_versions' = Record(event_versions,
                        EventVersion(e, r.session, r.caller, r.current_version + 1))
                /\ ops' = [ops EXCEPT ![e] = @ + 1]
                /\ resp' = Refreshed(events', e)

\* ----------------------------------------------------------- delete_event

\* models.py 62-65: what the unit of work does to the rows related to a
\* deleted event.  versions has no delete cascade, so its rows are kept and
\* their event_id is set to NULL; the rows of the secondary table of
\* shared_users are deleted.
Disown(versions, e) ==
    [i \in 1..Len(versions) |->
        IF versions[i].event_id = e THEN [versions[i] EXCEPT !.event_id = Null]
        ELSE versions[i]]

IsNotGrantOf(e, p) == p.event_id # e

RemoveGrants(grants, e) ==
    LET Keep(p) == IsNotGrantOf(e, p) IN SelectSeq(grants, Keep)

\* main.py 214-225: look the event up, refuse a caller who is not its owner,
\* db.delete(db_event), commit.
DeleteEvent(s, user, e) ==
    /\ MayStart(s)
    /\ UNCHANGED << req, next_event_id, ops >>
    /\ IF Refusal(user, e) # 0
       THEN /\ resp' = Refused(user, e, "Not authorized to delete this event")
            /\ UNCHANGED << events, event_versions, event_permissions >>
       ELSE /\ events' = [x \in DOMAIN events \ {e} |-> events[x]]
            /\ event_versions' = Disown(event_versions, e)
            /\ event_permissions' = RemoveGrants(event_permissions, e)
            /\ resp' = Ok("Event deleted successfully")

\* ------------------------------------------------------------ share_event

\* A row of event_permissions (created_at, a timestamp default, is left out).
Grant(e, user_id, role) == [event_id |-> e, user_id |-> user_id, role |-> role]

\* Grant rows the handler in slot s may still insert.
PendingGrants(s) == IF req[s].pc = "share_loop" THEN Len(req[s].body) ELSE 0

\* The bound on event_permissions leaves room for a batch of n entries.
RoomForGrants(n) ==
    Len(event_permissions) + Sum([s \in Slots |-> PendingGrants(s)], Slots) + n
        <= MaxGrants

\* main.py 266-272: look the event up, refuse a caller who is not its owner.
ShareEventBegin(s, user, e, body) ==
    /\ MayStart(s)
    /\ UNCHANGED << db, ops >>
    /\ IF Refusal(user, e) # 0
       THEN /\ resp' = Refused(user, e, "Only the owner can share this event")
            /\ UNCHANGED req
       ELSE /\ RoomForGrants(Len(body))
            /\ resp' = NoResp
            /\ req' = [req EXCEPT ![s] =
                    [pc |-> "share_loop", caller |-> user, eid |-> e,
                     body |-> body, i |-> 1, written |-> << >>]]

\* A lookup of users that finds every id.
UserExists_Always(user_id) == TRUE

\* main.py 276-277: the lookup of the user an entry names.
UserExists(user_id) == user_id \in Users

\* main.py 279: f"User with id {perm.user_id} not found"
UserNotFound(user_id) ==
    IF user_id = 1 THEN "User with id 1 not found"
    ELSE IF user_id = 2 THEN "User with id 2 not found"
    ELSE "User with id 3 not found"

\* A lookup of the existing grant that misses the rows this transaction
\* has inserted itself.
ExistingPerm_CommittedOnly(grants, written, e, user_id) ==
    \E k \in 1..Len(grants) :
        grants[k].event_id = e /\ grants[k].user_id = user_id

\* main.py 282-285, as the handler's transaction sees the table: is there a
\* row for (e, user_id), committed or inserted by this transaction.
ExistingPerm(grants, written, e, user_id) ==
    \/ \E k \in 1..Len(grants) :
          grants[k].event_id = e /\ grants[k].user_id = user_id
    \/ \E k \in 1..Len(written) :
          written[k].stmt = "insert" /\ written[k].user_id = user_id

\* main.py 287-303: the statement one loop iteration executes for entry perm.
ShareStatement(grants, written, e, perm) ==
    [ stmt |-> IF ExistingPerm(grants, written, e, perm.user_id)
               THEN "update" ELSE "insert",
      user_id |-> perm.user_id, role |-> perm.role ]

\* database.get_db, which is not among the sources, closes the session when
\* the handler raises: the statements the transaction executed and did not
\* commit are rolled back, and the table is as committed.
CloseSession(grants, written) == grants

\* main.py 275-303: one iteration of the loop.  An entry naming no user
\* raises 404 before the commit of line 305 is reached.
ShareEventGrant(s) ==
    LET r == req[s]
        perm == r.body[r.i]
    IN  /\ r.pc = "share_loop"
        /\ Sent
        /\ r.i <= Len(r.body)
        /\ UNCHANGED << events, event_versions, next_event_id, ops >>
        /\ IF ~UserExists(perm.user_id)
           THEN /\ resp' = HTTPException(404, UserNotFound(perm.user_id))
                /\ req' = [req EXCEPT ![s] = Idle]
                /\ event_permissions' = CloseSession(event_permissions, r.written)
           ELSE /\ req' = [req EXCEPT
                        ![s].i = @ + 1,
                        ![s].written = Append(@,
                            ShareStatement(event_permissions, r.written, r.eid, perm))]
                /\ resp' = NoResp
                /\ UNCHANGED event_permissions

\* The table after the transaction's statements, in the order executed.
RECURSIVE Execute(_, _, _)
Execute(grants, e, written) ==
    IF written = << >> THEN grants
    ELSE LET w == Head(written)
             after ==
                IF w.stmt = "insert"
                THEN Append(grants, Grant(e, w.user_id, w.role))
                ELSE [k \in 1..Len(grants) |->
                        IF grants[k].event_id = e /\ grants[k].user_id = w.user_id
                        THEN [grants[k] EXCEPT !.role = w.role]
                        ELSE grants[k]]
         IN  Execute(after, e, Tail(written))

IsGrantOf(e, p) == p.event_id = e

\* query(event_permissions).filter(event_id == e).all(), as the response
\* renders it.
Permissions(grants, e) ==
    LET Of(p) == IsGrantOf(e, p)
        rows == SelectSeq(grants, Of)
    IN  [k \in 1..Len(rows) |-> [user_id |-> rows[k].user_id, role |-> rows[k].role]]

\* main.py 305-318: commit, return the event's grants.  The foreign key of
\* event_permissions.event_id rejects rows of an event that is gone.
ShareEventCommit(s) ==
    LET r == req[s]
    IN  /\ r.pc = "share_loop"
        /\ Sent
        /\ r.i > Len(r.body)
        /\ req' = [req EXCEPT ![s] = Idle]
        /\ UNCHANGED << events, event_versions, next_event_id, ops >>
        /\ IF ~EventExists(r.eid)
           THEN /\ resp' = ServerError
                /\ UNCHANGED event_permissions
           ELSE /\ event_permissions' = Execute(event_permissions, r.eid, r.written)
                /\ resp' = Ok(Permissions(event_permissions', r.eid))

\* --------------------------------------------------------------- failures

\* A handler in flight ends on a storage error (or its process dies): the
\* session closes, nothing it has not committed is kept, the client sees a
\* server error.
Fail(s) ==
    /\ req[s].pc # "idle"
    /\ req' = [req EXCEPT ![s] = Idle]
    /\ resp' = ServerError
    /\ UNCHANGED << db, ops >>

\* ------------------------------------------------------------------ reads

\* A read handler is a single step that depends on committed rows only.  It
\* is taken when no other handler is in flight: every state of the tables is
\* also reached with all slots idle (Fail), so no response is left out.
Quiet == \A s \in Slots : req[s].pc = "idle"

\* main.py 137-160: the event with its grants.
GetEvent(user, e) ==
    /\ Quiet
    /\ Sent
    /\ UNCHANGED << db, req, ops >>
    /\ resp' = IF Refusal(user, e) # 0
            THEN Refused(user, e, "Not authorized to access this event")
            ELSE Ok([id |-> e, owner_id |-> events[e].owner_id,
                     fields |-> events[e].fields,
                     permissions |-> Permissions(event_permissions, e)])

\* get_event_version that looks the version up before it checks the owner.
GetEventVersion_LookupFirst(user, e, version_id) ==
    /\ \A s \in Slots : req[s].pc = "idle"
    /\ resp = NoResp
    /\ UNCHANGED << db, req, ops >>
    /\ IF e \notin DOMAIN events
       THEN resp' = HTTPException(404, "Event not found")
       ELSE IF VersionRowsNumbered(e, version_id) = {}
       THEN resp' = HTTPException(404, "Version not found")
       ELSE IF events[e].owner_id # user
       THEN resp' = HTTPException(403, "Not authorized to access this event")
       ELSE \E i \in VersionRowsNumbered(e, version_id) :
                resp' = Ok(event_versions[i])

\* main.py 329-347: the snapshot numbered version_id (.first(): any one row
\* when several carry the number).
GetEventVersion(user, e, version_id) ==
    /\ Quiet
    /\ Sent
    /\ UNCHANGED << db, req, ops >>
    /\ IF Refusal(user, e) # 0
       THEN resp' = Refused(user, e, "Not authorized to access this event")
       ELSE IF VersionRowsNumbered(e, version_id) = {}
       THEN resp' = HTTPException(404, "Version not found")
       ELSE \E i \in VersionRowsNumbered(e, version_id) :
                resp' = Ok(event_versions[i])

\* users.username
Username(user) == IF user = 1 THEN "alice" ELSE "bob"

\* An ordering by descending version_number.
RECURSIVE OrderByVersionNumber_Desc(_)
OrderByVersionNumber_Desc(S) ==
    IF S = {} THEN << >>
    ELSE LET first == CHOOSE i \in S : \A j \in S :
                        \/ event_versions[i].version_number > event_versions[j].version_number
                        \/ /\ event_versions[i].version_number = event_versions[j].version_number
                           /\ i <= j
         IN  << first >> \o OrderByVersionNumber_Desc(S \ {first})

\* order_by(version_number): the row ids in S by ascending version_number
\* (rows of one number in insertion order).
RECURSIVE OrderByVersionNumber(_)
OrderByVersionNumber(S) ==
    IF S = {} THEN << >>
    ELSE LET first == CHOOSE i \in S : \A j \in S :
                        \/ event_versions[i].version_number < event_versions[j].version_number
                        \/ /\ event_versions[i].version_number = event_versions[j].version_number
                           /\ i <= j
         IN  << first >> \o OrderByVersionNumber(S \ {first})

\* main.py 436-450: one changelog entry.
ChangelogEntry(version) ==
    [ version |-> version.version_number,
      modified_by |-> IF version.modified_by_id \in Users
                      THEN Username(version.modified_by_id) ELSE "Unknown",
      changes |-> version.fields ]

\* main.py 418-452
GetEventChangelog(user, e) ==
    /\ Quiet
    /\ Sent
    /\ UNCHANGED << db, req, ops >>
    /\ resp' = IF Refusal(user, e) # 0
            THEN Refused(user, e, "Not authorized to access this event")
            ELSE LET versions == OrderByVersionNumber(VersionRows(e))
                 IN  Ok([k \in 1..Len(versions) |->
                            ChangelogEntry(event_versions[versions[k]])])

\* A diff that reports version1's value as the new value too.
RECURSIVE Differences_SameValue(_, _, _)
Differences_SameValue(version1, version2, k) ==
    IF k > Len(FieldNames) THEN << >>
    ELSE LET field == FieldNames[k]
             val1 == version1.fields[field]
             val2 == version2.fields[field]
         IN  (IF val1 # val2
              THEN << [field |-> field, old_value |-> val1, new_value |-> val1] >>
              ELSE << >>)
             \o Differences_SameValue(version1, version2, k + 1)

\* A diff that reports every field, changed or not.
RECURSIVE Differences_EveryField(_, _, _)
Differences_EveryField(version1, version2, k) ==
    IF k > Len(FieldNames) THEN << >>
    ELSE LET field == FieldNames[k]
         IN  << [field |-> field, old_value |-> version1.fields[field],
                 new_value |-> version2.fields[field]] >>
             \o Differences_EveryField(version1, version2, k + 1)

\* main.py 487-497: the fields, from the k-th of the fixed list on, whose
\* values differ.
RECURSIVE Differences(_, _, _)
Differences(version1, version2, k) ==
    IF k > Len(FieldNames) THEN << >>
    ELSE LET field == FieldNames[k]
             val1 == version1.fields[field]
             val2 == version2.fields[field]
         IN  (IF val1 # val2
              THEN << [field |-> field, old_value |-> val1, new_value |-> val2] >>
              ELSE << >>)
             \o Differences(version1, version2, k + 1)

\* get_event_diff that answers 404 only when both versions are missing
\* ("and" for "or" in main.py 483); getattr on the missing one then raises.
GetEventDiff_BothMissing(user, e, version_id1, version_id2) ==
    /\ \A s \in Slots : req[s].pc = "idle"
    /\ resp = NoResp
    /\ UNCHANGED << db, req, ops >>
    /\ IF Refusal(user, e) # 0
       THEN resp' = Refused(user, e, "Not authorized to access this event")
       ELSE IF /\ VersionRowsNumbered(e, version_id1) = {}
               /\ VersionRowsNumbered(e, version_id2) = {}
       THEN resp' = HTTPException(404, "One or both versions not found")
       ELSE IF \/ VersionRowsNumbered(e, version_id1) = {}
               \/ VersionRowsNumbered(e, version_id2) = {}
       THEN resp' = ServerError
       ELSE \E i \in VersionRowsNumbered(e, version_id1) :
            \E j \in VersionRowsNumbered(e, version_id2) :
                resp' = Ok([version1 |-> version_id1, version2 |-> version_id2,
                        differences |->
                            Differences(event_versions[i], event_versions[j], 1)])

\* main.py 463-503
GetEventDiff(user, e, version_id1, version_id2) ==
    /\ Quiet
    /\ Sent
    /\ UNCHANGED << db, req, ops >>
    /\ IF Refusal(user, e) # 0
       THEN resp' = Refused(user, e, "Not authorized to access this event")
       ELSE IF \/ VersionRowsNumbered(e, version_id1) = {}
               \/ VersionRowsNumbered(e, version_id2) = {}
       THEN resp' = HTTPException(404, "One or both versions not found")
       ELSE \E i \in VersionRowsNumbered(e, version_id1) :
            \E j \in VersionRowsNumbered(e, version_id2) :
                resp' = Ok([version1 |-> version_id1, version2 |-> version_id2,
                        differences |->
                            Differences(event_versions[i], event_versions[j], 1)])

\* The response of the handler that just ended goes out to its client.
Deliver ==
    /\ resp # NoResp
    /\ resp' = NoResp
    /\ UNCHANGED << db, req, ops >>

\* ------------------------------------------------------ the specification

\* Version ids a path may name.
VersionIds == 1..MaxVersions

\* One step of the handler served in slot s.
Step(s) ==
        \/ \E user \in Users, body \in EventCreate : CreateEventInsert(s, user, body)
        \/ CreateEventVersion(s)
        \/ \E user \in Users, body \in BatchEventCreate :
                CreateBatchEventsBegin(s, user, body)
        \/ CreateBatchEventsInsert(s)
        \/ CreateBatchEventsVersion(s)
        \/ \E user \in Users, e \in EventIds, body \in EventUpdate :
                UpdateEventBegin(s, user, e, body)
        \/ UpdateEventRead(s)
        \/ UpdateEventCommit(s)
        \/ \E user \in Users, e \in EventIds, v \in VersionIds :
                RollbackEventBegin(s, user, e, v)
        \/ RollbackEventRead(s)
        \/ RollbackEventCommit(s)
        \/ \E user \in Users, e \in EventIds : DeleteEvent(s, user, e)
        \/ \E user \in Users, e \in EventIds, body \in ShareBodies :
                ShareEventBegin(s, user, e, body)
        \/ ShareEventGrant(s)
        \/ ShareEventCommit(s)
        \/ Fail(s)

\* A read request.
Read ==
        \/ \E user \in Users, e \in EventIds : GetEvent(user, e)
        \/ \E user \in Users, e \in EventIds, v \in VersionIds :
                GetEventVersion(user, e, v)
        \/ \E user \in Users, e \in EventIds : GetEventChangelog(user, e)
        \/ \E user \in Users, e \in EventIds, v1 \in VersionIds, v2 \in VersionIds :
                GetEventDiff(user, e, v1, v2)

Next == (\E s \in Slots : Step(s)) \/ Read \/ Deliver

\* One request at a time: every handler runs to its end before the next
\* one starts.
SerialNext == Step("r1") \/ Read \/ Deliver

SerialSpec == Init /\ [][SerialNext]_vars

\* Requests arrive and are served with their steps interleaved.
Spec == Init /\ [][Next]_vars

\* ----------------------------------------------------------------- claims

\* The version numbers the snapshots of event e carry.
VersionNumbers(e) == {event_versions[i].version_number : i \in VersionRows(e)}

\* The snapshot of event e numbered n (one of them, if several are).
Snapshot(e, n) == event_versions[CHOOSE i \in VersionRowsNumbered(e, n) : TRUE]

\* The handler in slot s ends with this step, answering 200.
Completes(s, pc) ==
    /\ req[s].pc = pc
    /\ req'[s].pc = "idle"
    /\ resp'.status = 200

\* C1: with the requests served one at a time, the version numbers of every
\* event's snapshots are exactly 1..N, each carried by one snapshot, N being
\* the number of create, update and rollback calls completed on the event.
C1_VersionNumbersOneToN ==
    \A e \in DOMAIN events :
        /\ VersionNumbers(e) = 1..ops[e]
        /\ Cardinality(VersionRows(e)) = ops[e]

\* C1 witness: an event after a create, an update and a rollback to version 1.
C1_Witness ==
    \E e \in DOMAIN events :
        /\ Quiet
        /\ ops[e] = 3
        /\ VersionNumbers(e) = {1, 2, 3}
        /\ Snapshot(e, 2).fields # Snapshot(e, 1).fields
        /\ Snapshot(e, 3).fields = Snapshot(e, 1).fields

\* C2: with the requests served one at a time, a rollback of event e to
\* version v that completes appends exactly one snapshot, numbered above every
\* snapshot e had, whose eight fields are those of snapshot v; the event's
\* fields are then those of v, and the diff of v against the new snapshot is
\* empty.
C2_RollbackRoundTrip ==
    [][\A s \in Slots :
        Completes(s, "rollback_commit") =>
            LET e == req[s].eid
                target == Snapshot(e, req[s].version_id)
                n == Len(event_versions')
                new == event_versions'[n]
            IN  /\ n = Len(event_versions) + 1
                /\ SubSeq(event_versions', 1, n - 1) = event_versions
                /\ new.event_id = e
                /\ \A i \in VersionRows(e) :
                        event_versions[i].version_number < new.version_number
                /\ new.fields = target.fields
                /\ events'[e].fields = target.fields
                /\ Differences(target, new, 1) = << >>
      ]_vars

\* C2 witness: a rollback to version 1 has just answered, undoing the change
\* of location that version 2 recorded.
C2_Witness ==
    \E e \in DOMAIN events :
        /\ resp.status = 200
        /\ VersionNumbers(e) = {1, 2, 3}
        /\ Snapshot(e, 2).fields.location # Snapshot(e, 1).fields.location
        /\ Snapshot(e, 3).fields = Snapshot(e, 1).fields
        /\ events[e].fields = Snapshot(e, 1).fields

\* C3: no step changes or removes a snapshot of an event that exists after
\* the step: the row keeps its place, its event, its number, its fields and
\* its modifier, so the event's ledger only grows.
C3_LedgerAppendOnly ==
    [][\A i \in 1..Len(event_versions) :
        event_versions[i].event_id \in DOMAIN events' =>
            /\ i <= Len(event_versions')
            /\ event_versions'[i] = event_versions[i]
      ]_vars

\* C3 witness: an event that has been updated, rolled back and shared.
C3_Witness ==
    \E e \in DOMAIN events :
        /\ Cardinality(VersionRows(e)) = 3
        /\ VersionNumbers(e) = {1, 2, 3}
        /\ Snapshot(e, 3).fields = Snapshot(e, 1).fields
        /\ Snapshot(e, 2).fields # Snapshot(e, 1).fields
        /\ \E k \in 1..Len(event_permissions) : event_permissions[k].event_id = e

\* The step is the answer to an event-scoped call of user on event e.
EventScopedCall(user, e) ==
    \/ \E s \in Slots :
        \/ \E body \in EventUpdate : UpdateEventBegin(s, user, e, body)
        \/ DeleteEvent(s, user, e)
        \/ \E body \in ShareBodies : ShareEventBegin(s, user, e, body)
        \/ \E v \in VersionIds : RollbackEventBegin(s, user, e, v)
    \/ GetEvent(user, e)
    \/ \E v \in VersionIds : GetEventVersion(user, e, v)
    \/ GetEventChangelog(user, e)
    \/ \E v1 \in VersionIds, v2 \in VersionIds : GetEventDiff(user, e, v1, v2)

\* C4: in every reachable state, no event-scoped call (get, update, delete,
\* share, get version, rollback, changelog, diff) on an existing event by a
\* user who is not its owner can be taken with any outcome other than the
\* answer 403 with the events, the snapshots and the grants left as they were.
C4_NonOwnerForbidden ==
    \A user \in Users : \A e \in DOMAIN events :
        events[e].owner_id # user =>
            ~ ENABLED ( /\ EventScopedCall(user, e)
                        /\ ~ ( /\ resp'.status = 403
                               /\ UNCHANGED << events, event_versions,
                                               event_permissions >> ) )

\* C4 witness: a user who holds a grant on an event that is not theirs has
\* just been refused.
C4_Witness ==
    /\ resp.status = 403
    /\ \E k \in 1..Len(event_permissions) :
          LET p == event_permissions[k]
          IN  /\ p.event_id \in DOMAIN events
              /\ p.user_id # events[p.event_id].owner_id

\* C5: in every committed state, every event has a snapshot numbered 1.
C5_EventHasVersionOne ==
    \A e \in DOMAIN events : VersionRowsNumbered(e, 1) # {}

\* C6: a step that removes an event removes its snapshots from the ledger
\* (every other row is kept, in order) and leaves no grant of it.
C6_DeleteCascades ==
    [][\A e \in DOMAIN events :
        e \notin DOMAIN events' =>
            /\ Len(event_versions') =
                  Len(event_versions) - Cardinality(VersionRows(e))
            /\ \A k \in 1..Len(event_permissions') :
                  event_permissions'[k].event_id # e
      ]_vars

\* The rows of the grants table for the pair (e, user_id).
GrantRows(grants, e, user_id) ==
    {k \in 1..Len(grants) :
        grants[k].event_id = e /\ grants[k].user_id = user_id}

\* The roles the grants table holds for the pair (e, user_id).
GrantRoles(grants, e, user_id) ==
    {grants[k].role : k \in GrantRows(grants, e, user_id)}

\* The entries of a share body that name user_id.
Naming(body, user_id) == {k \in 1..Len(body) : body[k].user_id = user_id}

\* The role of the last entry of a share body that names user_id.
LastRole(body, user_id) ==
    body[CHOOSE k \in Naming(body, user_id) :
            \A j \in Naming(body, user_id) : j <= k].role

\* The share handler in slot s commits the grants of event e for user_id.
SharesWith(s, e, user_id) ==
    /\ Completes(s, "share_loop")
    /\ req[s].eid = e
    /\ Naming(req[s].body, user_id) # {}

\* C7: with one request served at a time, every step leaves at most one
\* grant row per (event, user); a share that commits leaves each user it
\* names with exactly the role of the last entry naming them; and the role
\* of a pair changes in no other way while the event exists.
C7_OneGrantLatestRole ==
    [][\A e \in DOMAIN events' : \A user_id \in Users :
        /\ Cardinality(GrantRows(event_permissions', e, user_id)) <= 1
        /\ IF \E s \in Slots : SharesWith(s, e, user_id)
           THEN \A s \in Slots : SharesWith(s, e, user_id) =>
                    /\ Cardinality(GrantRows(event_permissions', e, user_id)) = 1
                    /\ GrantRoles(event_permissions', e, user_id) =
                          {LastRole(req[s].body, user_id)}
           ELSE GrantRoles(event_permissions', e, user_id) =
                    GrantRoles(event_permissions, e, user_id)
      ]_vars

\* C7 witness: a request has just been answered 200 and the grants table is
\* the single row (event, user 2, owner): user 2 was named twice in one
\* batch, first as editor, or was re-granted after an earlier share.
C7_Witness ==
    /\ resp.status = 200
    /\ \E e \in DOMAIN events :
          event_permissions = << Grant(e, 2, "owner") >>

\* C8: a step of the share loop writes nothing to the grants table, an entry
\* naming no user ends the request there with 404 (with 500 when the storage
\* fails first), and a share that commits named existing users only.
C8_BatchShareAllOrNothing ==
    [][\A s \in Slots :
        req[s].pc = "share_loop" /\ req'[s] # req[s] =>
            IF req[s].i > Len(req[s].body)
            THEN \A k \in 1..Len(req[s].body) : req[s].body[k].user_id \in Users
            ELSE /\ UNCHANGED event_permissions
                 /\ req[s].body[req[s].i].user_id \notin Users =>
                       /\ resp'.status \in {404, 500}
                       /\ req'[s].pc = "idle"
      ]_vars

\* C8 witness: a share whose second entry names no user has just been
\* answered 404, and the grant its first entry asked for is not in the table.
C8_Witness ==
    /\ resp = HTTPException(404, UserNotFound(3))
    /\ DOMAIN events # {}
    /\ \A k \in 1..Len(event_permissions) : event_permissions[k].user_id # 2

\* The highest version number among the snapshots of e, 0 when it has none.
MaxVersionNumber(e) ==
    IF VersionRows(e) = {} THEN 0
    ELSE CHOOSE n \in VersionNumbers(e) : \A k \in VersionNumbers(e) : k <= n

\* C9: an update reads the highest version number of its event in one step
\* and, in a later step, records its snapshot under that number plus one
\* whatever the ledger holds by then: the row is added even when the event
\* already has a snapshot of that number.
C9_UpdateNumbersFromItsRead ==
    [][\A s \in Slots :
        /\ req[s].pc = "update_read" /\ req'[s].pc = "update_commit" =>
              req'[s].current_version = MaxVersionNumber(req[s].eid)
        /\ Completes(s, "update_commit") =>
              /\ Len(event_versions') = Len(event_versions) + 1
              /\ event_versions'[Len(event_versions')].event_id = req[s].eid
              /\ event_versions'[Len(event_versions')].version_number =
                    req[s].current_version + 1
      ]_vars

\* C9 witness: two snapshots of one event carry the same version number,
\* each written by an update that read the same maximum.
C9_Witness ==
    \E i \in 1..Len(event_versions), j \in 1..Len(event_versions) :
        /\ i < j
        /\ event_versions[i].event_id \in DOMAIN events
        /\ event_versions[i].event_id = event_versions[j].event_id
        /\ event_versions[i].version_number = event_versions[j].version_number
        /\ event_versions[i].version_number = 2
        /\ Quiet

\* C10: in every reachable state the grants table holds at most one row per
\* (event, user).
C10_GrantsUnique ==
    \A e \in EventIds : \A user_id \in UserIds :
        Cardinality(GrantRows(event_permissions, e, user_id)) <= 1

\* The rows of event e in a ledger.
RowsOf(versions, e) == {i \in 1..Len(versions) : versions[i].event_id = e}

\* The highest-numbered snapshot of event e in a ledger (one of them, if
\* several carry the number).
LatestSnapshot(versions, e) ==
    versions[CHOOSE i \in RowsOf(versions, e) : \A j \in RowsOf(versions, e) :
                versions[j].version_number <= versions[i].version_number]

\* C11: with one request served at a time, after every step each event that
\* has a snapshot holds in its eight tracked fields the fields of its
\* highest-numbered snapshot; and a step of a handler that adds a snapshot
\* adds it as the highest-numbered one of its event, with all eight fields of
\* the event as the step leaves it and the handler's caller as modifier.
C11_LatestSnapshotIsEvent ==
    [][/\ \A e \in DOMAIN events' :
            RowsOf(event_versions', e) # {} =>
                events'[e].fields = LatestSnapshot(event_versions', e).fields
       /\ \A s \in Slots :
            req'[s] # req[s] /\ Len(event_versions') = Len(event_versions) + 1 =>
                LET new == event_versions'[Len(event_versions')]
                IN  /\ new.event_id = req[s].eid
                    /\ DOMAIN new.fields = TrackedFields
                    /\ new.fields = events'[req[s].eid].fields
                    /\ new.modified_by_id = req[s].caller
                    /\ \A i \in RowsOf(event_versions, req[s].eid) :
                          event_versions[i].version_number < new.version_number
      ]_vars

\* C11 witness: a request has just been answered 200 and an event's third
\* snapshot, written by a rollback to version 1 after an update, carries the
\* event's fields.
C11_Witness ==
    /\ resp.status = 200
    /\ \E e \in DOMAIN events :
          /\ VersionNumbers(e) = {1, 2, 3}
          /\ Cardinality(VersionRows(e)) = 3
          /\ Snapshot(e, 2).fields.title = "Daily Standup"
          /\ Snapshot(e, 3).fields = Snapshot(e, 1).fields
          /\ events[e].fields = Snapshot(e, 3).fields
          /\ Snapshot(e, 3).modified_by_id = events[e].owner_id

\* C12: with one request served at a time, an update that answers 200 leaves
\* every field its body sets at the body's value and every other field at
\* the value it had, and leaves the event's owner, the other events and the
\* grants as they were.
C12_UpdateFrame ==
    [][\A s \in Slots :
        Completes(s, "update_commit") =>
            LET e == req[s].eid
                body == req[s].body
            IN  /\ \A f \in TrackedFields :
                      events'[e].fields[f] =
                          IF f \in DOMAIN body THEN body[f] ELSE events[e].fields[f]
                /\ events'[e].owner_id = events[e].owner_id
                /\ DOMAIN events' = DOMAIN events
                /\ \A x \in DOMAIN events \ {e} : events'[x] = events[x]
                /\ event_permissions' = event_permissions
      ]_vars

\* C12 witness: an event created as "Standup" with no location has been
\* updated twice, once in its title only and once in its location and
\* is_recurring only; it carries both changes, its creation times and a
\* grant made in between.
C12_Witness ==
    /\ resp.status = 200
    /\ \E e \in DOMAIN events :
          /\ events[e].fields.title = "Daily Standup"
          /\ events[e].fields.location = "Hall"
          /\ events[e].fields.is_recurring
          /\ events[e].fields.description = "sync"
          /\ events[e].fields.start_time = 9
          /\ \E k \in 1..Len(event_permissions) : event_permissions[k].event_id = e

\* The place of a field in the fixed list.
FieldIndex(field) == CHOOSE k \in 1..Len(FieldNames) : FieldNames[k] = field

\* The body get_event_diff answers with for the snapshot rows i and j.
VersionDiff(version_id1, version_id2, i, j) ==
    [version1 |-> version_id1, version2 |-> version_id2,
     differences |-> Differences(event_versions[i], event_versions[j], 1)]

\* C13: for every event and every two of its version numbers a and b, on any
\* snapshot rows i and j carrying them, the owner's diff of a against b
\* answers with the differences of row i against row j; these and the
\* differences of j against i list the same fields at the same places, with
\* old_value and new_value swapped, in the order of the fixed field list.
C13_DiffAntisymmetric ==
    \A e \in DOMAIN events : \A a \in VersionIds, b \in VersionIds :
        \A i \in VersionRowsNumbered(e, a), j \in VersionRowsNumbered(e, b) :
            LET ab == Differences(event_versions[i], event_versions[j], 1)
                ba == Differences(event_versions[j], event_versions[i], 1)
            IN  /\ Quiet /\ Sent =>
                      ENABLED ( /\ GetEventDiff(events[e].owner_id, e, a, b)
                                /\ resp' = Ok(VersionDiff(a, b, i, j)) )
                /\ Len(ab) = Len(ba)
                /\ \A k \in 1..Len(ab) :
                      /\ ab[k].field = ba[k].field
                      /\ ab[k].old_value = ba[k].new_value
                      /\ ab[k].new_value = ba[k].old_value
                      /\ ab[k].old_value # ab[k].new_value
                /\ \A k \in 1..Len(ab), l \in 1..Len(ab) :
                      k < l => FieldIndex(ab[k].field) < FieldIndex(ab[l].field)

\* C13 witness: an event whose version 3 differs from version 1 in title,
\* location and is_recurring; the owner's diff of 1 against 3 and of 3
\* against 1 answer with these three fields in that order, values swapped.
C13_Witness ==
    /\ Quiet /\ Sent
    /\ \E e \in DOMAIN events :
          /\ ENABLED ( /\ GetEventDiff(events[e].owner_id, e, 1, 3)
                       /\ resp' = Ok([version1 |-> 1, version2 |-> 3, differences |->
                            << [field |-> "title", old_value |-> "Standup",
                                new_value |-> "Daily Standup"],
                               [field |-> "location", old_value |-> None,
                                new_value |-> "Hall"],
                               [field |-> "is_recurring", old_value |-> FALSE,
                                new_value |-> TRUE] >>]) )
          /\ ENABLED ( /\ GetEventDiff(events[e].owner_id, e, 3, 1)
                       /\ resp' = Ok([version1 |-> 3, version2 |-> 1, differences |->
                            << [field |-> "title", old_value |-> "Daily Standup",
                                new_value |-> "Standup"],
                               [field |-> "location", old_value |-> "Hall",
                                new_value |-> None],
                               [field |-> "is_recurring", old_value |-> TRUE,
                                new_value |-> FALSE] >>]) )

\* C14: with one request served at a time, the owner's diff of any existing
\* version of an event against itself can only answer with an empty list of
\* differences.
C14_DiffSelfEmpty ==
    \A e \in DOMAIN events : \A v \in VersionNumbers(e) :
        /\ \A i \in VersionRowsNumbered(e, v), j \in VersionRowsNumbered(e, v) :
              Differences(event_versions[i], event_versions[j], 1) = << >>
        /\ ~ ENABLED ( /\ GetEventDiff(events[e].owner_id, e, v, v)
                       /\ resp' # Ok([version1 |-> v, version2 |-> v,
                                      differences |-> << >>]) )

\* C14 witness: an event with three snapshots of which the second and third
\* differ from the first; the owner's diff of version 2 against itself
\* answers with no differences.
C14_Witness ==
    /\ Quiet /\ Sent
    /\ \E e \in DOMAIN events :
          /\ VersionNumbers(e) = {1, 2, 3}
          /\ Cardinality(VersionRows(e)) = 3
          /\ Snapshot(e, 2).fields # Snapshot(e, 1).fields
          /\ Snapshot(e, 3).fields # Snapshot(e, 1).fields
          /\ ENABLED ( /\ GetEventDiff(events[e].owner_id, e, 2, 2)
                       /\ resp' = Ok([version1 |-> 2, version2 |-> 2,
                                      differences |-> << >>]) )

\* The name a changelog entry shows for a modifier.
ModifierName(user) == IF user \in Users THEN Username(user) ELSE "Unknown"

\* The changelog of an event whose n snapshots are numbered 1..n: entry k
\* is snapshot k.
ChangelogOneToN(e, n) ==
    [k \in 1..n |->
        [ version |-> k,
          modified_by |-> ModifierName(Snapshot(e, k).modified_by_id),
          changes |-> Snapshot(e, k).fields ]]

\* C15: with one request served at a time, the owner's changelog of an
\* event can only answer with one entry per snapshot of the event, entry k
\* being the snapshot numbered k with its fields and its modifier's username
\* (so the entries ascend strictly by version), and it can be asked whenever
\* no other request is being served.
C15_ChangelogAllAscending ==
    \A e \in DOMAIN events :
        LET n == Cardinality(VersionRows(e))
            log == ChangelogOneToN(e, n)
        IN  /\ VersionNumbers(e) = 1..n
            /\ Len(log) = n
            /\ \A k \in 1..n, l \in 1..n : k < l => log[k].version < log[l].version
            /\ ~ ENABLED ( /\ GetEventChangelog(events[e].owner_id, e)
                           /\ resp' # Ok(log) )
            /\ Quiet /\ Sent => ENABLED GetEventChangelog(events[e].owner_id, e)

\* C15 witness: user 1 (alice) has created an event, retitled it and rolled
\* it back to version 1; the changelog answers with the three entries 1, 2
\* and 3 in that order.
C15_Witness ==
    /\ Quiet /\ Sent
    /\ \E e \in DOMAIN events :
          /\ events[e].owner_id = 1
          /\ ENABLED ( /\ GetEventChangelog(1, e)
                       /\ resp' = Ok(
                            << [version |-> 1, modified_by |-> "alice",
                                changes |-> EventBase("Standup", "sync", 9, 10)],
                               [version |-> 2, modified_by |-> "alice",
                                changes |-> EventBase("Daily Standup", "sync", 9, 10)],
                               [version |-> 3, modified_by |-> "alice",
                                changes |-> EventBase("Standup", "sync", 9, 10)] >>) )

\* The events a batch handler in slot s has committed so far.
BatchCommitted(s) ==
    {req[s].created[k] : k \in 1..Len(req[s].created)}
        \cup (IF req[s].pc = "batch_version" THEN {req[s].eid} ELSE {})

\* C16: when a batch create ends without answering 200, none of the events
\* its earlier steps inserted is in the store.
C16_BatchCreateAtomic ==
    [][\A s \in Slots :
        /\ req[s].pc \in {"batch_insert", "batch_version"}
        /\ req'[s].pc = "idle"
        /\ resp'.status # 200
        => \A e \in BatchCommitted(s) : e \notin DOMAIN events'
      ]_vars

\* C17: no step changes the owner of an event that exists before and after
\* it, and an event a step adds is owned by the user whose create or batch
\* create added it, a single registered user.
C17_OwnerImmutable ==
    [][\A e \in DOMAIN events' :
        IF e \in DOMAIN events
        THEN events'[e].owner_id = events[e].owner_id
        ELSE /\ events'[e].owner_id \in Users
             /\ \E s \in Slots :
                   /\ req'[s].pc \in {"create_version", "batch_version"}
                   /\ req'[s].eid = e
                   /\ req'[s].caller = events'[e].owner_id
      ]_vars

\* C17 witness: user 1's event has been updated and rolled back and user 2
\* holds a grant of role owner on it; its owner is still user 1.
C17_Witness ==
    \E e \in DOMAIN events :
        /\ Quiet
        /\ events[e].owner_id = 1
        /\ ops[e] = 3
        /\ \A i \in VersionRows(e) : event_versions[i].modified_by_id = 1
        /\ \E k \in 1..Len(event_permissions) :
              event_permissions[k] = Grant(e, 2, "owner")

\* The recurrence invariant on a set of tracked fields.
RecurrenceInvariant(fields) ==
    /\ fields.is_recurring => fields.recurrence_pattern # None
    /\ ~ fields.is_recurring =>
          /\ fields.recurrence_pattern = None
          /\ fields.recurrence_end_date = NoTime

\* C18: in every reachable state every event and every snapshot satisfies
\* the recurrence invariant.
C18_RecurrenceInvariant ==
    /\ \A e \in DOMAIN events : RecurrenceInvariant(events[e].fields)
    /\ \A i \in 1..Len(event_versions) : RecurrenceInvariant(event_versions[i].fields)

\* User holds a grant on event e.
HoldsGrant(user, e) ==
    \E k \in 1..Len(event_permissions) :
        event_permissions[k].event_id = e /\ event_permissions[k].user_id = user

\* C19: in every reachable state, whatever the grants table holds, the
\* authorization check on an existing event lets its owner through and
\* refuses every other user; and a user who holds a grant on an event that
\* is not theirs can take no event-scoped call on it with an answer other
\* than 403.
C19_AccessByOwnershipOnly ==
    \A user \in Users : \A e \in DOMAIN events :
        /\ Refusal(user, e) = IF events[e].owner_id = user THEN 0 ELSE 403
        /\ HoldsGrant(user, e) /\ events[e].owner_id # user =>
              ~ ENABLED ( /\ EventScopedCall(user, e)
                          /\ resp'.status # 403 )

\* C19 witness: user 2 holds the role owner on an event of user 1 and has
\* just been refused a share of it.
C19_Witness ==
    /\ resp.status = 403
    /\ resp.detail = "Only the owner can share this event"
    /\ \E e \in DOMAIN events :
          /\ events[e].owner_id = 1
          /\ HoldsGrant(2, e)
          /\ \E k \in 1..Len(event_permissions) :
                event_permissions[k] = Grant(e, 2, "owner")

\* A call that names a version of event e by the number v: get version,
\* rollback, or a diff with v on either side.
VersionScopedCall(user, e, v) ==
    \/ GetEventVersion(user, e, v)
    \/ \E s \in Slots : RollbackEventBegin(s, user, e, v)
    \/ \E w \in VersionIds :
          GetEventDiff(user, e, v, w) \/ GetEventDiff(user, e, w, v)

\* The share bodies with an entry that names no user.
ShareBodiesNamingNoUser ==
    {body \in ShareBodies : \E k \in 1..Len(body) : body[k].user_id \notin Users}

\* C20: in every reachable state an event-scoped call on an event id with no
\* row can only be answered 404 "Event not found", whoever calls; and on an
\* existing event a user who is not its owner can only be answered 403 when
\* asking for a version number the event does not have (get version,
\* rollback, diff) or when sharing with a user id that has no row.
C20_CheckOrder ==
    \A user \in Users : \A e \in EventIds :
        IF e \notin DOMAIN events
        THEN ~ ENABLED ( /\ EventScopedCall(user, e)
                         /\ ~ ( /\ resp'.status = 404
                                /\ resp'.detail = "Event not found" ) )
        ELSE events[e].owner_id # user =>
                /\ \A v \in VersionIds \ VersionNumbers(e) :
                      ~ ENABLED ( /\ VersionScopedCall(user, e, v)
                                  /\ resp'.status # 403 )
                /\ \A body \in ShareBodiesNamingNoUser :
                      ~ ENABLED ( /\ \E s \in Slots : ShareEventBegin(s, user, e, body)
                                  /\ resp'.status # 403 )

\* C20 witness: a user who does not own an event that has a single snapshot
\* has just been refused with the wording of get version, rollback or diff,
\* while version 2 of the event does not exist.
C20_Witness ==
    /\ resp.status = 403
    /\ resp.detail \in {"Not authorized to access this event",
                        "Not authorized to update this event"}
    /\ \E e \in DOMAIN events : VersionNumbers(e) = {1}
    /\ \A e \in DOMAIN events : 2 \notin VersionNumbers(e)

\* C21: in every reachable state, when the owner of an existing event asks
\* for a version number the event has no snapshot of, through get version,
\* rollback or either side of a diff, the call can only be answered 404
\* with its handler's "not found" wording, no handler stays in flight, and
\* the events, the ledger and the grants are left as they were.
C21_MissingVersionNotFound ==
    \A e \in DOMAIN events : \A v \in VersionIds \ VersionNumbers(e) :
        ~ ENABLED ( /\ VersionScopedCall(events[e].owner_id, e, v)
                    /\ ~ ( /\ resp'.status = 404
                           /\ resp'.detail \in {"Version not found",
                                                "One or both versions not found"}
                           /\ UNCHANGED << events, event_versions,
                                           event_permissions, req >> ) )

\* C21 witness: a diff has just been answered 404 for its versions, on a
\* store whose events have no third snapshot and one of which has been
\* updated once: its owner named a version at least one side of which is
\* missing.
C21_Witness ==
    /\ resp.status = 404
    /\ resp.detail = "One or both versions not found"
    /\ \A e \in DOMAIN events : 3 \notin VersionNumbers(e)
    /\ \E e \in DOMAIN events :
          /\ VersionNumbers(e) = {1, 2}
          /\ events[e].fields = Snapshot(e, 2).fields
          /\ events[e].fields # Snapshot(e, 1).fields

\* C22: in every reachable state every snapshot of an existing event names
\* the event's owner as its modifier.
C22_ModifierIsOwner ==
    \A i \in 1..Len(event_versions) :
        event_versions[i].event_id \in DOMAIN events =>
            event_versions[i].modified_by_id =
                events[event_versions[i].event_id].owner_id

\* C22 witness: user 2 has created an event, updated it and rolled it back,
\* while user 1 owns another event; the three snapshots name user 2.
C22_Witness ==
    /\ Quiet
    /\ \E e \in DOMAIN events : events[e].owner_id = 1
    /\ \E e \in DOMAIN events :
          /\ events[e].owner_id = 2
          /\ Cardinality(VersionRows(e)) = 3
          /\ VersionNumbers(e) = {1, 2, 3}
          /\ \A i \in VersionRows(e) : event_versions[i].modified_by_id = 2

====
